---- MODULE Spec2Model ----
(***************************************************************************)
(* InMemoryOrderService (src/src/order_service.rs): two HashMaps, each     *)
(* behind its own std::sync::RwLock, used by put_order, delete_order and   *)
(* get_orders from several threads at once.  Every handler is modelled     *)
(* statement by statement at the granularity of its lock acquisitions and  *)
(* of its map mutations; pc labels carry the source line the thread is     *)
(* about to execute.                                                       *)
(***************************************************************************)
EXTENDS Integers, Sequences, FiniteSets, TLC

\* ---- bounds of the model ----
NumThreads == 2
MaxCalls == 3
\* of the test clients (tests.rs, test_concurrent_put_order): the orders a
\* client puts in one iteration (3 in the test), the iterations it runs
\* (as many as fit in 10 s in the test) and the tables the clients spread
\* over (3 in the test)
OrdersPerRound == 1
MaxRounds == 2
NumTables == 1

\* ---- program constants: rand::thread_rng().gen_range(5..16) ----
CookLow == 5
CookHighExcl == 16

Threads == 1..NumThreads

\* The String arguments the callers pass (the values of order_service_tests.rs).
OrderIds == {"order1", "order2"}
TableIds == {"table1", "table2"}
ItemIds == {"item1", "item2"}

\* Option::None of an Option<String>, and "no thread" for a lock without writer.
None == "None"
NoThread == 0

\* orders, tables_idx: the two maps of InMemoryOrderService, each behind its
\* lock; pc, frame, ret: where each thread is in a handler, the handler's
\* arguments and locals, and the last result returned to the thread; calls:
\* the calls made so far; task: the locals of each test client.
VARIABLES orders, tables_idx, orders_lock, tables_idx_lock, pc, frame, ret, calls, task

vars == <<orders, tables_idx, orders_lock, tables_idx_lock, pc, frame, ret, calls, task>>

\* ------------------------------------------------------------------------
\* Data
\* ------------------------------------------------------------------------

\* an OrderResult built with item_id and table_id taken from each other's field
OrderResultSwapped(id, item, table, ct) ==
    [order_id |-> id, item_id |-> table, table_id |-> item, cooking_time |-> ct]

\* struct OrderResult
OrderResult(id, item, table, ct) ==
    [order_id |-> id, item_id |-> item, table_id |-> table, cooking_time |-> ct]

NoOrder == OrderResult(None, None, None, 0)


\* gen_range(low..=high): the closed range
GenRangeInclusive(low, high) == low..high

\* gen_range(low..high): the values of the half-open integer range
GenRange(low, high) == low..(high - 1)

\* Result<_, OrderServiceError> of a handler, with the handler that produced it
\* (and, for get_orders, the filters it was called with).
NoRet == [op |-> "none", tag |-> "NoRet", val |-> None, table_id |-> None, item_id |-> None]
Ok(op, r) == [op |-> op, tag |-> "Ok", val |-> r, table_id |-> None, item_id |-> None]
OkVec(table, item, s) ==
    [op |-> "get_orders", tag |-> "Ok", val |-> s, table_id |-> table, item_id |-> item]
DuplicateOrder(id) ==
    [op |-> "put_order", tag |-> "DuplicateOrder", val |-> id, table_id |-> None, item_id |-> None]
OrderNotFound(id) ==
    [op |-> "delete_order", tag |-> "OrderNotFound", val |-> id, table_id |-> None, item_id |-> None]

\* map_err(|_| OrderServiceError::OrderNotFound(..)): the wrong variant
MutexPoisonedAsNotFound(op) ==
    [op |-> op, tag |-> "OrderNotFound", val |-> None, table_id |-> None, item_id |-> None]

MutexPoisoned(op) ==
    [op |-> op, tag |-> "MutexPoisoned", val |-> None, table_id |-> None, item_id |-> None]

\* ------------------------------------------------------------------------
\* std::sync::RwLock
\* ------------------------------------------------------------------------
\* A lock is poisoned when a thread panics while it holds the write guard; the
\* handlers contain no panicking statement, so in Spec the flag is only ever
\* read (by the map_err branches of the acquisitions).  SpecPanic lets the
\* library calls made under the guards panic.
NewRwLock == [writer |-> NoThread, readers |-> {}, poisoned |-> FALSE]

\* a write() that does not wait for the writer holding the lock
CanWriteDespiteWriter(l) == l.readers = {}


\* a write() that does not wait for the readers holding the lock
CanWriteDespiteReaders(l) == l.writer = NoThread

\* write() returns once there is neither a writer nor a reader
CanWrite(l) == l.writer = NoThread /\ l.readers = {}

\* a read() that does not wait for the writer holding the lock
CanReadDespiteWriter(l) == TRUE

\* read() returns once there is no writer
CanRead(l) == l.writer = NoThread


\* a write guard that is handed out without the lock being taken
WriteLockedUnrecorded(l, t) == l

WriteLocked(l, t) == [l EXCEPT !.writer = t]
ReadLocked(l, t) == [l EXCEPT !.readers = @ \cup {t}]

\* std::mem::forget(guard): the write guard is never dropped
WriteUnlockedForgotten(l) == l

\* dropping a guard
WriteUnlocked(l) == [l EXCEPT !.writer = NoThread]
ReadUnlocked(l, t) == [l EXCEPT !.readers = @ \ {t}]

\* ------------------------------------------------------------------------
\* HashMap / Vec operations used by the handlers
\* ------------------------------------------------------------------------
\* a duplicate check that never finds the key
ContainsKeyNever(m, k) == FALSE


\* !orders.is_empty() in place of orders.contains_key(&id)
ContainsKeyAny(m, k) == DOMAIN m # {}

ContainsKey(m, k) == k \in DOMAIN m


\* HashMap::from([(k, v)]): a map holding the new entry alone
InsertAlone(m, k, v) == [x \in {k} |-> v]

Insert(m, k, v) == [x \in DOMAIN m \cup {k} |-> IF x = k THEN v ELSE m[x]]


\* orders.get(&k) in place of orders.remove(&k): the map keeps the entry
RemoveNothing(m, k) == m

\* orders.remove(&k): the map afterwards
Remove(m, k) == [x \in DOMAIN m \ {k} |-> m[x]]

\* orders.remove(&k).unwrap_or_default(): always Some
RemovedOrDefault(m, k) ==
    [some |-> TRUE, value |-> IF k \in DOMAIN m THEN m[k] ELSE OrderResult(None, None, None, 0)]

\* orders.remove(&k) taken for None whatever it removed
RemovedNone(m, k) == [some |-> FALSE, value |-> NoOrder]

\* orders.remove(&k): the Option it returns
Removed(m, k) ==
    IF k \in DOMAIN m THEN [some |-> TRUE, value |-> m[k]]
                      ELSE [some |-> FALSE, value |-> NoOrder]

\* tables_idx.insert(table, vec![id]): replaces the Vec of a table already listed
EntryPushFresh(m, table, id) == Insert(m, table, <<id>>)

\* tables_idx.entry(table).or_insert_with(Vec::new).push(id)
EntryPush(m, table, id) ==
    IF table \in DOMAIN m
    THEN [m EXCEPT ![table] = Append(@, id)]
    ELSE Insert(m, table, <<id>>)

\* table.retain(|x| x == &order_id): the predicate the wrong way round
RetainInverted(table, order_id) == SelectSeq(table, LAMBDA x: x = order_id)

\* table.retain(|x| x != &order_id)
Retain(table, order_id) == SelectSeq(table, LAMBDA x: x # order_id)

\* a delete that leaves the table's Vec as it is
RetainInSkipped(m, table_id, order_id) == m


\* table.retain(|x| x != &order.table_id): compares with the table's id
RetainInByTableId(m, table_id, order_id) ==
    IF table_id \in DOMAIN m
    THEN [m EXCEPT ![table_id] = Retain(@, table_id)]
    ELSE m

\* if let Some(table) = tables_idx.get_mut(&order.table_id) { table.retain(..) }
RetainIn(m, table_id, order_id) ==
    IF table_id \in DOMAIN m
    THEN [m EXCEPT ![table_id] = Retain(@, order_id)]
    ELSE m

\* orders.values(): the values, in any iteration order of the HashMap
Values(m) ==
    LET n == Cardinality(DOMAIN m)
        keyOrders == {p \in [1..n -> DOMAIN m] : \A i, j \in 1..n : p[i] = p[j] => i = j}
    IN  {[i \in 1..n |-> m[p[i]]] : p \in keyOrders}

\* a filter that lets every order through
FilterItemKeepAll(s, item_id) == s

\* .filter(|order| order.item_id == item_id)
FilterItem(s, item_id) == SelectSeq(s, LAMBDA o: o.item_id = item_id)

\* order_ids.iter().find_map(..): stops at the first id that is stored
FilterMapGetFirst(order_ids, m) ==
    LET live == SelectSeq(order_ids, LAMBDA id: id \in DOMAIN m)
    IN  IF live = <<>> THEN <<>> ELSE <<m[live[1]]>>

\* order_ids.iter().filter_map(|id| orders.get(id).cloned()).collect()
FilterMapGet(order_ids, m) ==
    LET live == SelectSeq(order_ids, LAMBDA id: id \in DOMAIN m)
    IN  [i \in 1..Len(live) |-> m[live[i]]]


\* the match of get_orders with its (None, Some(item_id)) arm left empty
GetOrdersResultsNoItemArm(m, idx, table_id, item_id) ==
    IF table_id = None /\ item_id = None THEN Values(m)
    ELSE IF table_id # None /\ item_id = None THEN
        IF table_id \in DOMAIN idx THEN {FilterMapGet(idx[table_id], m)} ELSE {<<>>}
    ELSE IF table_id # None /\ item_id # None THEN
        IF table_id \in DOMAIN idx
        THEN {FilterItem(FilterMapGet(idx[table_id], m), item_id)}
        ELSE {<<>>}
    ELSE {<<>>}

\* the match of get_orders, lines 116-148: the vectors it can evaluate to
GetOrdersResults(m, idx, table_id, item_id) ==
    IF table_id = None /\ item_id = None THEN Values(m)
    ELSE IF table_id # None /\ item_id = None THEN
        IF table_id \in DOMAIN idx THEN {FilterMapGet(idx[table_id], m)} ELSE {<<>>}
    ELSE IF table_id # None /\ item_id # None THEN
        IF table_id \in DOMAIN idx
        THEN {FilterItem(FilterMapGet(idx[table_id], m), item_id)}
        ELSE {<<>>}
    ELSE {FilterItem(s, item_id) : s \in Values(m)}

\* ------------------------------------------------------------------------
\* Initial state: new_in_memory()
\* ------------------------------------------------------------------------
EmptyMap == [x \in {} |-> None]

\* the locals of a test client that has sent nothing yet (tests.rs lines
\* 253-256): the iteration, the ids pushed at line 259, the records its PUTs
\* were answered with, the request it sent last, and how many of order_ids
\* the loop of line 295 has taken
NewTask ==
    [iteration_num |-> 0, order_ids |-> <<>>, order_results |-> <<>>,
     sent |-> "none", deleted |-> 0]

\* the frame of a thread that is in no handler
Idle == [op |-> "none", id |-> None, item_id |-> None, table_id |-> None, local |-> NoOrder]

Init ==
    /\ orders = EmptyMap
    /\ tables_idx = EmptyMap
    /\ orders_lock = NewRwLock
    /\ tables_idx_lock = NewRwLock
    /\ pc = [t \in Threads |-> "idle"]
    /\ frame = [t \in Threads |-> Idle]
    /\ ret = [t \in Threads |-> NoRet]
    /\ calls = 0
    /\ task = [t \in Threads |-> NewTask]

\* Thread t enters a handler.  The arguments are Strings moved into the call
\* and nothing reads them before the first lock is held, so a call that waits
\* for that lock is the same whatever its arguments: they are drawn by
\* Args in the step that acquires the lock.
Call(t, op, label) ==
    /\ pc[t] = "idle"
    /\ calls < MaxCalls
    /\ calls' = calls + 1
    /\ pc' = [pc EXCEPT ![t] = label]
    /\ frame' = [frame EXCEPT ![t] = [Idle EXCEPT !.op = op]]
    /\ ret' = [ret EXCEPT ![t] = NoRet]
    /\ UNCHANGED <<orders, tables_idx, orders_lock, tables_idx_lock, task>>

\* the arguments of the call of thread t
Args(t, id, item, table) ==
    frame' = [frame EXCEPT ![t] = [@ EXCEPT !.id = id, !.item_id = item, !.table_id = table]]

\* the handler of thread t returns r; its frame is gone
Return(t, r) ==
    /\ pc' = [pc EXCEPT ![t] = "idle"]
    /\ ret' = [ret EXCEPT ![t] = r]
    /\ frame' = [frame EXCEPT ![t] = Idle]

\* thread t goes on to the statement at label
Goto(t, label) ==
    /\ pc' = [pc EXCEPT ![t] = label]
    /\ UNCHANGED ret

\* ------------------------------------------------------------------------
\* put_order
\* ------------------------------------------------------------------------
\* fn put_order(&self, id: String, order: Order)
CallPutOrder(t) == Call(t, "put_order", "put_67")

\* lines 67-68: self.orders.write().map_err(..)?, for a call whose
\* arguments are among ids, items and tables
PutWriteOrdersOf(t, ids, items, tables) ==
    /\ pc[t] = "put_67"
    /\ CanWrite(orders_lock)
    /\ IF orders_lock.poisoned
       THEN /\ Return(t, MutexPoisoned("put_order"))
            /\ UNCHANGED orders_lock
       ELSE /\ orders_lock' = WriteLocked(orders_lock, t)
            /\ Goto(t, "put_70")
            /\ \E id \in ids, item \in items, table \in tables :
                   Args(t, id, item, table)
    /\ UNCHANGED <<orders, tables_idx, tables_idx_lock, calls, task>>

PutWriteOrders(t) == PutWriteOrdersOf(t, OrderIds, ItemIds, TableIds)

\* lines 70-72: if orders.contains_key(&id) { return Err(DuplicateOrder(id)) }
PutContainsKey(t) ==
    /\ pc[t] = "put_70"
    /\ IF ContainsKey(orders, frame[t].id)
       THEN /\ Return(t, DuplicateOrder(frame[t].id))
            /\ orders_lock' = WriteUnlocked(orders_lock)
       ELSE /\ Goto(t, "put_74")
            /\ UNCHANGED <<frame, orders_lock>>
    /\ UNCHANGED <<orders, tables_idx, tables_idx_lock, calls, task>>

\* lines 74-81: build order_result, orders.insert(id, order_result)
PutInsert(t) ==
    /\ pc[t] = "put_74"
    /\ \E ct \in GenRange(CookLow, CookHighExcl) :
           LET order_result ==
                   OrderResult(frame[t].id, frame[t].item_id, frame[t].table_id, ct)
           IN  /\ orders' = Insert(orders, frame[t].id, order_result)
               /\ frame' = [frame EXCEPT ![t].local = order_result]
    /\ Goto(t, "put_83")
    /\ UNCHANGED <<tables_idx, orders_lock, tables_idx_lock, calls, task>>

\* lines 83-84: self.tables_idx.write().map_err(..)?
PutWriteTablesIdx(t) ==
    /\ pc[t] = "put_83"
    /\ CanWrite(tables_idx_lock)
    /\ IF tables_idx_lock.poisoned
       THEN /\ Return(t, MutexPoisoned("put_order"))
            /\ orders_lock' = WriteUnlocked(orders_lock)
            /\ UNCHANGED tables_idx_lock
       ELSE /\ tables_idx_lock' = WriteLocked(tables_idx_lock, t)
            /\ Goto(t, "put_85")
            /\ UNCHANGED <<frame, orders_lock>>
    /\ UNCHANGED <<orders, tables_idx, calls, task>>

\* lines 85-88: push the id, return Ok(order_result), drop both guards
PutPush(t) ==
    /\ pc[t] = "put_85"
    /\ tables_idx' = EntryPush(tables_idx, frame[t].table_id, frame[t].id)
    /\ Return(t, Ok("put_order", frame[t].local))
    /\ tables_idx_lock' = WriteUnlocked(tables_idx_lock)
    /\ orders_lock' = WriteUnlocked(orders_lock)
    /\ UNCHANGED <<orders, calls, task>>

\* ------------------------------------------------------------------------
\* delete_order
\* ------------------------------------------------------------------------
\* fn delete_order(&self, order_id: String)
CallDeleteOrder(t) == Call(t, "delete_order", "del_91")

\* lines 91-92: self.orders.write().map_err(..)?, for a call whose
\* argument is among ids
DeleteWriteOrdersOf(t, ids) ==
    /\ pc[t] = "del_91"
    /\ CanWrite(orders_lock)
    /\ IF orders_lock.poisoned
       THEN /\ Return(t, MutexPoisoned("delete_order"))
            /\ UNCHANGED orders_lock
       ELSE /\ orders_lock' = WriteLocked(orders_lock, t)
            /\ Goto(t, "del_94")
            /\ \E id \in ids : Args(t, id, None, None)
    /\ UNCHANGED <<orders, tables_idx, tables_idx_lock, calls, task>>

DeleteWriteOrders(t) == DeleteWriteOrdersOf(t, OrderIds)

\* lines 94-95: orders.remove(&order_id).ok_or(OrderNotFound(order_id))?
DeleteRemove(t) ==
    /\ pc[t] = "del_94"
    /\ orders' = Remove(orders, frame[t].id)
    /\ LET order == Removed(orders, frame[t].id)
       IN  IF order.some
           THEN /\ frame' = [frame EXCEPT ![t].local = order.value]
                /\ Goto(t, "del_97")
                /\ UNCHANGED orders_lock
           ELSE /\ Return(t, OrderNotFound(frame[t].id))
                /\ orders_lock' = WriteUnlocked(orders_lock)
    /\ UNCHANGED <<tables_idx, tables_idx_lock, calls, task>>

\* lines 97-98: self.tables_idx.write().map_err(..)?
DeleteWriteTablesIdx(t) ==
    /\ pc[t] = "del_97"
    /\ CanWrite(tables_idx_lock)
    /\ IF tables_idx_lock.poisoned
       THEN /\ Return(t, MutexPoisoned("delete_order"))
            /\ orders_lock' = WriteUnlocked(orders_lock)
            /\ UNCHANGED tables_idx_lock
       ELSE /\ tables_idx_lock' = WriteLocked(tables_idx_lock, t)
            /\ Goto(t, "del_99")
            /\ UNCHANGED <<frame, orders_lock>>
    /\ UNCHANGED <<orders, tables_idx, calls, task>>

\* lines 99-104: retain, return Ok(order), drop both guards
DeleteRetain(t) ==
    /\ pc[t] = "del_99"
    /\ tables_idx' = RetainIn(tables_idx, frame[t].local.table_id, frame[t].id)
    /\ Return(t, Ok("delete_order", frame[t].local))
    /\ tables_idx_lock' = WriteUnlocked(tables_idx_lock)
    /\ orders_lock' = WriteUnlocked(orders_lock)
    /\ UNCHANGED <<orders, calls, task>>

\* ------------------------------------------------------------------------
\* get_orders
\* ------------------------------------------------------------------------
\* fn get_orders(&self, table_id: Option<String>, item_id: Option<String>)
CallGetOrders(t) == Call(t, "get_orders", "get_111")

\* lines 111-112: self.orders.read().map_err(..)?, for a call whose
\* filters are among tables and items
GetReadOrdersOf(t, tables, items) ==
    /\ pc[t] = "get_111"
    /\ CanRead(orders_lock)
    /\ IF orders_lock.poisoned
       THEN /\ Return(t, MutexPoisoned("get_orders"))
            /\ UNCHANGED orders_lock
       ELSE /\ orders_lock' = ReadLocked(orders_lock, t)
            /\ Goto(t, "get_113")
            /\ \E table \in tables, item \in items :
                   Args(t, None, item, table)
    /\ UNCHANGED <<orders, tables_idx, tables_idx_lock, calls, task>>

GetReadOrders(t) == GetReadOrdersOf(t, TableIds \cup {None}, ItemIds \cup {None})

\* lines 113-114: self.tables_idx.read().map_err(..)?
GetReadTablesIdx(t) ==
    /\ pc[t] = "get_113"
    /\ CanRead(tables_idx_lock)
    /\ IF tables_idx_lock.poisoned
       THEN /\ Return(t, MutexPoisoned("get_orders"))
            /\ orders_lock' = ReadUnlocked(orders_lock, t)
            /\ UNCHANGED tables_idx_lock
       ELSE /\ tables_idx_lock' = ReadLocked(tables_idx_lock, t)
            /\ Goto(t, "get_116")
            /\ UNCHANGED <<frame, orders_lock>>
    /\ UNCHANGED <<orders, tables_idx, calls, task>>

\* lines 116-150: evaluate the match, return Ok(result), drop both guards
GetCollect(t) ==
    /\ pc[t] = "get_116"
    /\ \E result \in GetOrdersResults(orders, tables_idx, frame[t].table_id, frame[t].item_id) :
           Return(t, OkVec(frame[t].table_id, frame[t].item_id, result))
    /\ tables_idx_lock' = ReadUnlocked(tables_idx_lock, t)
    /\ orders_lock' = ReadUnlocked(orders_lock, t)
    /\ UNCHANGED <<orders, tables_idx, calls, task>>

\* ------------------------------------------------------------------------
\* Any number of threads calling the three handlers in any interleaving
\* ------------------------------------------------------------------------
Next ==
    \E t \in Threads :
        \/ CallPutOrder(t)
        \/ PutWriteOrders(t)
        \/ PutContainsKey(t)
        \/ PutInsert(t)
        \/ PutWriteTablesIdx(t)
        \/ PutPush(t)
        \/ CallDeleteOrder(t)
        \/ DeleteWriteOrders(t)
        \/ DeleteRemove(t)
        \/ DeleteWriteTablesIdx(t)
        \/ DeleteRetain(t)
        \/ CallGetOrders(t)
        \/ GetReadOrders(t)
        \/ GetReadTablesIdx(t)
        \/ GetCollect(t)

\* ------------------------------------------------------------------------
\* Concurrent put_order calls only (no delete_order runs)
\* ------------------------------------------------------------------------
NextPut ==
    \E t \in Threads :
        \/ CallPutOrder(t)
        \/ PutWriteOrders(t)
        \/ PutContainsKey(t)
        \/ PutInsert(t)
        \/ PutWriteTablesIdx(t)
        \/ PutPush(t)

SpecPut == Init /\ [][NextPut]_vars

\* ------------------------------------------------------------------------
\* Handlers that may panic.  The handlers have no panic of their own, and a
\* String or Vec that cannot be allocated aborts the process instead of
\* unwinding.  The one library call under a guard that can unwind is
\* rand::thread_rng() at line 78, when the generator cannot be seeded: it
\* runs under the write guard on orders (line 67), before the insert of
\* line 81.  The stack unwinds, which drops the guards the thread holds,
\* and the server answers the request and keeps the thread.
\* ------------------------------------------------------------------------
\* the statement that may unwind while a guard is held
PanicSites == {"put_74"}

\* a guard of thread t on lock l is dropped while t is panicking: a write
\* guard poisons the lock, a read guard does not
Unwound(l, t) ==
    IF l.writer = t THEN [l EXCEPT !.writer = NoThread, !.poisoned = TRUE]
                    ELSE ReadUnlocked(l, t)

\* the request of thread t ended in a panic
Panicked(op) ==
    [op |-> op, tag |-> "Panicked", val |-> None, table_id |-> None, item_id |-> None]

Panic(t) ==
    /\ pc[t] \in PanicSites
    /\ Return(t, Panicked(frame[t].op))
    /\ tables_idx_lock' = Unwound(tables_idx_lock, t)
    /\ orders_lock' = Unwound(orders_lock, t)
    /\ UNCHANGED <<orders, tables_idx, calls, task>>

NextPanic ==
    \/ Next
    \/ \E t \in Threads : Panic(t)

SpecPanic == Init /\ [][NextPanic]_vars

\* ------------------------------------------------------------------------
\* Threads contending for the two locks under a fair scheduler.
\* ------------------------------------------------------------------------
\* thread t runs the next statement of the handler it is in
LockStep(t) ==
    \/ PutWriteOrders(t)
    \/ PutContainsKey(t)
    \/ PutInsert(t)
    \/ PutWriteTablesIdx(t)
    \/ PutPush(t)
    \/ DeleteWriteOrders(t)
    \/ DeleteRemove(t)
    \/ DeleteWriteTablesIdx(t)
    \/ DeleteRetain(t)
    \/ GetReadOrders(t)
    \/ GetReadTablesIdx(t)
    \/ GetCollect(t)

\* The scheduler runs every thread that stays able to run its next
\* statement; no thread has to call a handler.
SpecLocksFair ==
    /\ Init
    /\ [][Next]_vars
    /\ \A t \in Threads : WF_vars(LockStep(t))

\* ------------------------------------------------------------------------
\* The clients of test_concurrent_put_order (tests.rs lines 249-307).  Client
\* thread_num runs iterations; in each it PUTs orders under ids made of its
\* number, the iteration and the order's number, lists by its item, lists
\* by its table, and DELETEs the ids it put.  It sends a request once the
\* response to the one before has passed its assertion; a client whose
\* assertion fails panics and sends nothing more.
\* ------------------------------------------------------------------------
\* format!("order{}_{}_{}", thread_num, iteration_num, order_num)
WorkerOrderId(t, iteration_num, order_num) ==
    "order" \o ToString(t) \o "_" \o ToString(iteration_num) \o "_" \o ToString(order_num)

\* format!("item{}", thread_num)
WorkerItemId(t) == "item" \o ToString(t)

\* format!("table{}", thread_num % 3)
WorkerTableId(t) == "table" \o ToString(t % NumTables)

\* assert!(res.status().is_success()) on the response to the last request,
\* and after the list by item assert!(orders.len() >= 3)
Asserted(t) ==
    \/ task[t].sent = "none"
    \/ /\ ret[t].tag = "Ok"
       /\ task[t].sent = "get_item" => Len(ret[t].val) >= OrdersPerRound

\* The client sends a request to the handler entered at label and goes on
\* with the locals k.
WorkerCall(t, op, label, k) ==
    /\ pc[t] = "idle"
    /\ Asserted(t)
    /\ pc' = [pc EXCEPT ![t] = label]
    /\ frame' = [frame EXCEPT ![t] = [Idle EXCEPT !.op = op]]
    /\ ret' = [ret EXCEPT ![t] = NoRet]
    /\ task' = [task EXCEPT ![t] = k]
    /\ UNCHANGED <<calls, orders, tables_idx, orders_lock, tables_idx_lock>>

\* the records the PUTs of this iteration were answered with
OrderResults(t) ==
    IF task[t].sent = "put" THEN Append(task[t].order_results, ret[t].val)
                            ELSE task[t].order_results

\* lines 257-270: the next PUT of the iteration
WorkerCallPutOrder(t) ==
    /\ task[t].iteration_num < MaxRounds
    /\ task[t].sent \in {"none", "put"}
    /\ Len(task[t].order_ids) < OrdersPerRound
    /\ WorkerCall(t, "put_order", "put_67",
                  [task[t] EXCEPT
                      !.order_ids = Append(@, WorkerOrderId(t, task[t].iteration_num, Len(@))),
                      !.order_results = OrderResults(t),
                      !.sent = "put"])

WorkerPutWriteOrders(t) ==
    /\ task[t].sent = "put"
    /\ PutWriteOrdersOf(t, {task[t].order_ids[Len(task[t].order_ids)]},
                        {WorkerItemId(t)}, {WorkerTableId(t)})

\* lines 273-279: the list by the client's item
WorkerCallGetOrdersByItem(t) ==
    /\ task[t].sent = "put"
    /\ Len(task[t].order_ids) = OrdersPerRound
    /\ WorkerCall(t, "get_orders", "get_111",
                  [task[t] EXCEPT !.order_results = OrderResults(t), !.sent = "get_item"])

\* lines 285-290: the list by the client's table
WorkerCallGetOrdersByTable(t) ==
    /\ task[t].sent = "get_item"
    /\ WorkerCall(t, "get_orders", "get_111", [task[t] EXCEPT !.sent = "get_table"])

WorkerGetReadOrders(t) ==
    \/ /\ task[t].sent = "get_item"
       /\ GetReadOrdersOf(t, {None}, {WorkerItemId(t)})
    \/ /\ task[t].sent = "get_table"
       /\ GetReadOrdersOf(t, {WorkerTableId(t)}, {None})

\* lines 295-302: the DELETE of the next of order_ids
WorkerCallDeleteOrder(t) ==
    /\ task[t].sent \in {"get_table", "delete"}
    /\ task[t].deleted < Len(task[t].order_ids)
    /\ WorkerCall(t, "delete_order", "del_91",
                  [task[t] EXCEPT !.order_results = <<>>, !.sent = "delete", !.deleted = @ + 1])

WorkerDeleteWriteOrders(t) ==
    /\ task[t].sent = "delete"
    /\ DeleteWriteOrdersOf(t, {task[t].order_ids[task[t].deleted]})

\* lines 303-305, then 254-256: the iteration is over
WorkerNextIteration(t) ==
    /\ pc[t] = "idle"
    /\ task[t].sent = "delete"
    /\ task[t].deleted = Len(task[t].order_ids)
    /\ Asserted(t)
    /\ task' = [task EXCEPT ![t] = [NewTask EXCEPT !.iteration_num = task[t].iteration_num + 1]]
    /\ ret' = [ret EXCEPT ![t] = NoRet]
    /\ UNCHANGED <<orders, tables_idx, orders_lock, tables_idx_lock, pc, frame, calls>>

NextWorkers ==
    \E t \in Threads :
        \/ WorkerCallPutOrder(t)
        \/ WorkerPutWriteOrders(t)
        \/ PutContainsKey(t)
        \/ PutInsert(t)
        \/ PutWriteTablesIdx(t)
        \/ PutPush(t)
        \/ WorkerCallGetOrdersByItem(t)
        \/ WorkerCallGetOrdersByTable(t)
        \/ WorkerGetReadOrders(t)
        \/ GetReadTablesIdx(t)
        \/ GetCollect(t)
        \/ WorkerCallDeleteOrder(t)
        \/ WorkerDeleteWriteOrders(t)
        \/ DeleteRemove(t)
        \/ DeleteWriteTablesIdx(t)
        \/ DeleteRetain(t)
        \/ WorkerNextIteration(t)

SpecWorkers == Init /\ [][NextWorkers]_vars

Spec == Init /\ [][Next]_vars

\* ========================================================================
\* Properties
\* ========================================================================

\* the number of occurrences of x in the sequence s
Count(s, x) == Cardinality({i \in 1..Len(s) : s[i] = x})

\* no put_order or delete_order is inside its critical section
NoWriterInside == orders_lock.writer = NoThread

IndexComplete ==
    \A id \in DOMAIN orders :
        /\ orders[id].table_id \in DOMAIN tables_idx
        /\ Count(tables_idx[orders[id].table_id], orders[id].order_id) = 1

IndexSound ==
    \A table \in DOMAIN tables_idx :
        \A i \in 1..Len(tables_idx[table]) :
            /\ tables_idx[table][i] \in DOMAIN orders
            /\ orders[tables_idx[table][i]].table_id = table

\* thread t has returned from op with tag
Returned(t, op, tag) == pc[t] = "idle" /\ ret[t].op = op /\ ret[t].tag = tag

\* C1: index completeness. Whenever no put_order or delete_order is in
\* progress inside its critical section (that is, after every completed
\* call, successful or failed), each order stored in `orders` has its
\* order_id exactly once in tables_idx[its table_id].
C1_IndexCompleteness == NoWriterInside => IndexComplete

\* Two orders share one table entry, and a call has failed before.
C1_Witness ==
    /\ NoWriterInside
    /\ \E table \in DOMAIN tables_idx : Len(tables_idx[table]) = 2
    /\ Cardinality(DOMAIN orders) = 2
    /\ \E t \in Threads : ret[t].tag \in {"DuplicateOrder", "OrderNotFound"}

\* C2: index soundness. Whenever no put_order or delete_order is inside its
\* critical section, every id listed in tables_idx[t] is the key of an order
\* in `orders` whose table_id is t.
C2_IndexSoundness == NoWriterInside => IndexSound

\* order1 was deleted from table1 and put again at table2.
C2_Witness ==
    /\ NoWriterInside
    /\ \E t \in Threads :
           /\ Returned(t, "delete_order", "Ok")
           /\ ret[t].val.order_id = "order1"
           /\ ret[t].val.table_id = "table1"
    /\ "order1" \in DOMAIN orders
    /\ orders["order1"].table_id = "table2"
    /\ "table1" \in DOMAIN tables_idx
    /\ tables_idx["table1"] = <<>>

\* C3: consistent snapshot. A get_orders call that holds its read guard on
\* `orders` (before and after it takes the one on tables_idx) sees the two
\* maps agree: no order missing from its table entry, no listed id without
\* its order.
C3_ReaderSnapshot ==
    \A t \in Threads :
        pc[t] \in {"get_113", "get_116"} => IndexComplete /\ IndexSound

\* A reader holds both guards on a non-empty store while a writer waits.
C3_Witness ==
    \E t, u \in Threads :
        /\ pc[t] = "get_116"
        /\ pc[u] \in {"put_67", "del_91"}
        /\ orders # EmptyMap

\* what the put_order calls in progress and the last results show of C4
PutsExclusiveNow ==
    LET okPuts == {t \in Threads : Returned(t, "put_order", "Ok")}
        done == {t \in Threads : pc[t] = "idle" /\ ret[t] # NoRet}
        passed == {t \in Threads : pc[t] \in {"put_74", "put_83", "put_85"}}
    IN  /\ \A t, u \in okPuts : ret[t].val.order_id = ret[u].val.order_id => t = u
        /\ \A t \in done :
               \/ t \in okPuts /\ ret[t].val.order_id \in DOMAIN orders
               \/ ret[t].tag = "DuplicateOrder" /\ ret[t].val \in DOMAIN orders
        /\ \A t, u \in passed : frame[t].id = frame[u].id => t = u
        /\ \A t \in passed, u \in okPuts : ret[u].val.order_id # frame[t].id

\* C4: same-id puts exclude each other. With threads calling put_order
\* concurrently, again and again, and no delete_order running: no two calls
\* return Ok for the same id, and a call returns DuplicateOrder only for an
\* id that is stored; the existence check answers DuplicateOrder exactly
\* when the id is stored; a call that passed the check inserts an id that
\* is still absent, so `orders` gains exactly that one id, and this is the
\* only way `orders` gains an id; that call goes on to return Ok with the
\* record stored under the id.  So each Ok answers one insertion of a new
\* id and each insertion is answered by one Ok: of the calls sharing an id
\* one returns Ok and every other DuplicateOrder.
C4_SameIdPutsExclusive ==
        /\ []PutsExclusiveNow
        /\ [][/\ \A t \in Threads :
                    /\ (pc[t] = "put_70" /\ pc'[t] # "put_70") =>
                           IF frame[t].id \in DOMAIN orders
                           THEN pc'[t] = "idle" /\ ret'[t] = DuplicateOrder(frame[t].id)
                           ELSE pc'[t] = "put_74"
                    /\ (pc[t] = "put_74" /\ pc'[t] # "put_74") =>
                           /\ frame[t].id \notin DOMAIN orders
                           /\ DOMAIN orders' = DOMAIN orders \cup {frame[t].id}
                           /\ pc'[t] = "put_83"
                    /\ (pc[t] = "put_83" /\ pc'[t] # "put_83") => pc'[t] = "put_85"
                    /\ (pc[t] = "put_85" /\ pc'[t] # "put_85") =>
                           /\ pc'[t] = "idle"
                           /\ ret'[t] = Ok("put_order", orders[frame[t].id])
                    /\ (pc'[t] = "idle" /\ pc[t] # "idle" /\ ret'[t].tag = "Ok") =>
                           pc[t] = "put_85"
              /\ DOMAIN orders' # DOMAIN orders =>
                     \E t \in Threads : pc[t] = "put_74" /\ pc'[t] = "put_83"
              /\ \A id \in DOMAIN orders :
                     id \in DOMAIN orders' /\ orders'[id] = orders[id]]_vars

\* Two threads have put the same id, one got Ok and the other
\* DuplicateOrder, and the thread that got Ok has put again.
C4_Witness ==
    /\ calls = 3
    /\ \E t, u \in Threads :
           /\ Returned(t, "put_order", "DuplicateOrder")
           /\ Returned(u, "put_order", "DuplicateOrder")
           /\ t # u
           /\ ret[u].val = ret[t].val
    /\ Cardinality(DOMAIN orders) = 1

\* thread t executes the statement at label
StepFrom(t, label) == pc[t] = label /\ pc'[t] # label

MapsUnchanged == orders' = orders /\ tables_idx' = tables_idx

\* C5: a duplicate put is rejected without effect. A put_order whose id is a
\* key of `orders` when it checks (line 70) returns DuplicateOrder carrying
\* that id, and no step of the call, from taking the lock on, changes
\* `orders` or tables_idx.
C5_DuplicatePutRejected ==
    [][\A t \in Threads :
           /\ StepFrom(t, "put_67") => MapsUnchanged
           /\ (StepFrom(t, "put_70") /\ frame[t].id \in DOMAIN orders) =>
                  /\ pc'[t] = "idle"
                  /\ ret'[t].op = "put_order"
                  /\ ret'[t].tag = "DuplicateOrder"
                  /\ ret'[t].val = frame[t].id
                  /\ MapsUnchanged]_vars

\* A put_order returned DuplicateOrder for an id that another call had put.
C5_Witness ==
    \E t, u \in Threads :
        /\ Returned(t, "put_order", "DuplicateOrder")
        /\ Returned(u, "put_order", "Ok")
        /\ ret[u].val.order_id = ret[t].val
        /\ ret[t].val \in DOMAIN orders
        /\ orders[ret[t].val] = ret[u].val

\* C6: a delete of an unknown id is rejected without effect. A delete_order
\* whose id is no key of `orders` when it removes (line 94) returns
\* OrderNotFound carrying that id, and no step of the call changes `orders`
\* or tables_idx.
C6_DeleteUnknownRejected ==
    [][\A t \in Threads :
           /\ StepFrom(t, "del_91") => MapsUnchanged
           /\ (StepFrom(t, "del_94") /\ frame[t].id \notin DOMAIN orders) =>
                  /\ pc'[t] = "idle"
                  /\ ret'[t].op = "delete_order"
                  /\ ret'[t].tag = "OrderNotFound"
                  /\ ret'[t].val = frame[t].id
                  /\ MapsUnchanged]_vars

\* A delete_order returned OrderNotFound for an id another call had deleted.
C6_Witness ==
    \E t, u \in Threads :
        /\ Returned(t, "delete_order", "OrderNotFound")
        /\ Returned(u, "delete_order", "Ok")
        /\ ret[u].val.order_id = ret[t].val
        /\ ret[t].val \notin DOMAIN orders

\* C7: a successful put. A put_order whose id is no key of `orders` when it
\* checks goes on to insert, takes the tables_idx lock and returns Ok with a
\* record carrying the id, item_id and table_id it was called with; at its
\* return `orders` maps the id to that record and the id has been appended
\* to tables_idx[table_id], an entry created for it if there was none.
C7_SuccessfulPut ==
    [][\A t \in Threads :
           /\ (StepFrom(t, "put_70") /\ frame[t].id \notin DOMAIN orders) =>
                  pc'[t] = "put_74" /\ MapsUnchanged
           /\ StepFrom(t, "put_74") =>
                  /\ pc'[t] = "put_83"
                  /\ frame[t].id \in DOMAIN orders'
                  /\ orders'[frame[t].id] = frame'[t].local
                  /\ tables_idx' = tables_idx
           /\ StepFrom(t, "put_83") => pc'[t] = "put_85" /\ MapsUnchanged
           /\ StepFrom(t, "put_85") =>
                  /\ pc'[t] = "idle"
                  /\ ret'[t].op = "put_order"
                  /\ ret'[t].tag = "Ok"
                  /\ ret'[t].val.order_id = frame[t].id
                  /\ ret'[t].val.item_id = frame[t].item_id
                  /\ ret'[t].val.table_id = frame[t].table_id
                  /\ frame[t].id \in DOMAIN orders'
                  /\ orders'[frame[t].id] = ret'[t].val
                  /\ frame[t].table_id \in DOMAIN tables_idx'
                  /\ tables_idx'[frame[t].table_id] =
                         Append(IF frame[t].table_id \in DOMAIN tables_idx
                                THEN tables_idx[frame[t].table_id] ELSE <<>>,
                                frame[t].id)]_vars

\* A put_order returned Ok and its id is the second one of its table's entry.
C7_Witness ==
    \E t \in Threads :
        /\ Returned(t, "put_order", "Ok")
        /\ ret[t].val.order_id \in DOMAIN orders
        /\ orders[ret[t].val.order_id] = ret[t].val
        /\ ret[t].val.table_id \in DOMAIN tables_idx
        /\ Len(tables_idx[ret[t].val.table_id]) = 2
        /\ tables_idx[ret[t].val.table_id][2] = ret[t].val.order_id

\* C8: a successful delete. A put_order returns the record it stored, no
\* step changes the record stored under an id that stays in `orders`, and a
\* delete_order whose id is a key of `orders` takes that record out of
\* `orders`, takes the id out of tables_idx[the record's table_id] and
\* returns Ok with the record as it was stored.
C8_SuccessfulDelete ==
    [][/\ \A id \in DOMAIN orders \cap DOMAIN orders' : orders'[id] = orders[id]
       /\ \A t \in Threads :
           /\ StepFrom(t, "put_85") => ret'[t].val = orders[frame[t].id]
           /\ (StepFrom(t, "del_94") /\ frame[t].id \in DOMAIN orders) =>
                  /\ pc'[t] = "del_97"
                  /\ frame'[t].local = orders[frame[t].id]
                  /\ frame[t].id \notin DOMAIN orders'
                  /\ tables_idx' = tables_idx
           /\ StepFrom(t, "del_97") => pc'[t] = "del_99" /\ MapsUnchanged
           /\ StepFrom(t, "del_99") =>
                  /\ pc'[t] = "idle"
                  /\ ret'[t].op = "delete_order"
                  /\ ret'[t].tag = "Ok"
                  /\ ret'[t].val = frame[t].local
                  /\ ret'[t].val.order_id = frame[t].id
                  /\ frame[t].id \notin DOMAIN orders'
                  /\ frame[t].local.table_id \in DOMAIN tables_idx' =>
                         Count(tables_idx'[frame[t].local.table_id], frame[t].id) = 0]_vars

\* A delete_order returned the very record the put_order of its id returned,
\* and the id is gone from `orders` and from its table's entry.
C8_Witness ==
    \E t, u \in Threads :
        /\ Returned(u, "put_order", "Ok")
        /\ Returned(t, "delete_order", "Ok")
        /\ ret[t].val = ret[u].val
        /\ ret[t].val.order_id \notin DOMAIN orders
        /\ ret[t].val.table_id \in DOMAIN tables_idx
        /\ Count(tables_idx[ret[t].val.table_id], ret[t].val.order_id) = 0

\* the full scan of `orders`: the stored orders that pass the filters given
Matching(table_id, item_id) ==
    {orders[id] : id \in {i \in DOMAIN orders :
        /\ table_id # None => orders[i].table_id = table_id
        /\ item_id # None => orders[i].item_id = item_id}}

NoDuplicates(s) == \A i, j \in 1..Len(s) : s[i] = s[j] => i = j

Elements(s) == {s[i] : i \in 1..Len(s)}

\* C9: the table-scoped list agrees with the full scan. get_orders with
\* Some(table_id) returns Ok with a vector that holds, each exactly once, the
\* orders of `orders` whose table_id is the one asked for and, when an
\* item_id is given, whose item_id is the one asked for; it is empty when
\* there is none.
C9_TableScopedList ==
    [][\A t \in Threads :
           (StepFrom(t, "get_116") /\ frame[t].table_id # None) =>
               /\ pc'[t] = "idle"
               /\ ret'[t].op = "get_orders"
               /\ ret'[t].tag = "Ok"
               /\ NoDuplicates(ret'[t].val)
               /\ Elements(ret'[t].val) = Matching(frame[t].table_id, frame[t].item_id)]_vars

\* A table-scoped get_orders returned both orders of a table.
C9_Witness ==
    \E t \in Threads :
        /\ Returned(t, "get_orders", "Ok")
        /\ ret[t].table_id # None
        /\ ret[t].item_id = None
        /\ Len(ret[t].val) = 2
        /\ Elements(ret[t].val) = Matching(ret[t].table_id, None)

\* C10: the list without a table filter. get_orders(None, None) returns Ok
\* with a vector holding each order of `orders` exactly once, and
\* get_orders(None, Some(item_id)) one holding exactly those whose item_id is
\* the one asked for.
C10_UnscopedList ==
    [][\A t \in Threads :
           (StepFrom(t, "get_116") /\ frame[t].table_id = None) =>
               /\ pc'[t] = "idle"
               /\ ret'[t].op = "get_orders"
               /\ ret'[t].tag = "Ok"
               /\ NoDuplicates(ret'[t].val)
               /\ Elements(ret'[t].val) = Matching(None, frame[t].item_id)]_vars

\* An item-only get_orders returned one of the two stored orders.
C10_Witness ==
    \E t \in Threads :
        /\ Returned(t, "get_orders", "Ok")
        /\ ret[t].table_id = None
        /\ ret[t].item_id # None
        /\ Len(ret[t].val) = 1
        /\ Cardinality(DOMAIN orders) = 2
        /\ Elements(ret[t].val) = Matching(None, ret[t].item_id)

\* ------------------------------------------------------------------------
\* C11  Put/list round trip.  A client whose PUTs of an iteration were each
\* answered Ok, with the records r, and that then lists by its item and by
\* its table before it deletes any of them, gets Ok both times with every
\* r in the vector, whatever the other clients are doing to their own ids
\* in the meantime.
\* ------------------------------------------------------------------------
C11_PutListRoundTrip ==
    [][\A t \in Threads :
          StepFrom(t, "get_116") =>
              /\ ret'[t].tag = "Ok"
              /\ Len(task[t].order_results) = OrdersPerRound
              /\ \A i \in 1..Len(task[t].order_results) :
                     LET r == task[t].order_results[i]
                         byTable == frame[t].table_id = r.table_id /\ frame[t].item_id = None
                         byItem == frame[t].table_id = None /\ frame[t].item_id = r.item_id
                     IN  /\ r.order_id = task[t].order_ids[i]
                         /\ byTable \/ byItem
                         /\ r \in Elements(ret'[t].val)]_vars

\* one client has listed its table and found its order next to another
\* client's, and that other client has listed its item and found its order
C11_Witness ==
    \E t, u \in Threads :
        /\ t # u
        /\ Returned(t, "get_orders", "Ok")
        /\ task[t].sent = "get_table"
        /\ Len(ret[t].val) = 2
        /\ Elements(task[t].order_results) \subseteq Elements(ret[t].val)
        /\ Returned(u, "get_orders", "Ok")
        /\ task[u].sent = "get_item"
        /\ ret[u].item_id = WorkerItemId(u)
        /\ task[u].order_results # <<>>
        /\ Elements(task[u].order_results) \subseteq Elements(ret[u].val)

\* ------------------------------------------------------------------------
\* C12  Deleted orders disappear.  A delete_order that returns Ok leaves
\* its id out of orders; an id comes into orders only by the insert of a
\* put_order of that id, which goes on to return Ok; and a get_orders
\* collects its result while no put_order or delete_order is between its
\* mutation and its return, and returns only records whose ids are in
\* orders.  So from the Ok of a delete_order until a later put_order of
\* the id succeeds no get_orders returns a record with that id, whatever
\* its filters; and a list by a table on which no order is left returns
\* the empty vector.
\* ------------------------------------------------------------------------
C12_DeletedOrdersDisappear ==
    [][/\ \A t \in Threads :
              /\ (pc[t] = "del_99" /\ pc'[t] = "idle") =>
                     /\ ret'[t].tag = "Ok"
                     /\ ret'[t].val.order_id = frame[t].id
                     /\ frame[t].id \notin DOMAIN orders'
              /\ StepFrom(t, "get_116") =>
                     /\ NoWriterInside
                     /\ ret'[t].tag = "Ok"
                     /\ \A i \in 1..Len(ret'[t].val) :
                            ret'[t].val[i].order_id \in DOMAIN orders
                     /\ \A u \in Threads :
                            ( /\ Returned(u, "delete_order", "Ok")
                              /\ ret[u].val.order_id \notin DOMAIN orders )
                            => \A i \in 1..Len(ret'[t].val) :
                                   ret'[t].val[i].order_id # ret[u].val.order_id
                     /\ ( /\ frame[t].table_id # None
                          /\ frame[t].item_id = None
                          /\ \A id \in DOMAIN orders : orders[id].table_id # frame[t].table_id )
                        => ret'[t].val = <<>>
       /\ \A id \in DOMAIN orders' \ DOMAIN orders :
              \E v \in Threads :
                  /\ pc[v] = "put_74"
                  /\ pc'[v] = "put_83"
                  /\ frame[v].id = id]_vars

\* an order was put and deleted, and a list by its table, the third call,
\* has returned the empty vector while the table still has its entry in
\* tables_idx
C12_Witness ==
    \E t, u \in Threads :
        /\ calls = 3
        /\ Returned(u, "delete_order", "Ok")
        /\ Returned(t, "get_orders", "Ok")
        /\ ret[t].table_id = ret[u].val.table_id
        /\ ret[t].item_id = None
        /\ ret[t].val = <<>>
        /\ orders = EmptyMap
        /\ tables_idx[ret[u].val.table_id] = <<>>

\* ------------------------------------------------------------------------
\* C13  Cooking-time range.  Every record held in orders, every record a
\* handler holds or has returned (put_order, delete_order, each element of
\* a get_orders vector), has a cooking_time from 5 to 15 inclusive, and so
\* has every value of the range the generator draws from.
\* ------------------------------------------------------------------------
CookingTimeInRange(o) == o.cooking_time \in 5..15

C13_CookingTimeRange ==
    /\ \A ct \in GenRange(CookLow, CookHighExcl) : ct \in 5..15
    /\ \A id \in DOMAIN orders : CookingTimeInRange(orders[id])
    /\ \A t \in Threads :
        /\ frame[t].local # NoOrder => CookingTimeInRange(frame[t].local)
        /\ (ret[t].tag = "Ok" /\ ret[t].op \in {"put_order", "delete_order"})
               => CookingTimeInRange(ret[t].val)
        /\ (ret[t].tag = "Ok" /\ ret[t].op = "get_orders")
               => \A i \in 1..Len(ret[t].val) : CookingTimeInRange(ret[t].val[i])

\* orders cooked for 5 and for 15 minutes are stored, and a list has
\* returned both
C13_Witness ==
    /\ \E id1, id2 \in DOMAIN orders :
           orders[id1].cooking_time = 5 /\ orders[id2].cooking_time = 15
    /\ \E t \in Threads :
           /\ Returned(t, "get_orders", "Ok")
           /\ {ret[t].val[i].cooking_time : i \in 1..Len(ret[t].val)} = {5, 15}

\* ------------------------------------------------------------------------
\* C14  Per-order state machine.  An id is absent or live.  put_order of
\* the id succeeds iff it is absent at the check and makes it live;
\* delete_order of the id succeeds iff it is live and makes it absent;
\* nothing else moves an id between the two states, and a thread on its
\* way from the check to its Ok holds the orders lock alone.  So the
\* successful puts and deletes of one id alternate strictly, starting with
\* a put, and an id that was deleted can be put again.
\* ------------------------------------------------------------------------
Live(id) == id \in DOMAIN orders

C14_PerOrderStateMachine ==
    [][\A id \in OrderIds :
        /\ \A t \in Threads :
            /\ (StepFrom(t, "put_70") /\ frame[t].id = id) =>
                   IF Live(id) THEN ret'[t] = DuplicateOrder(id) /\ Live(id)'
                               ELSE pc'[t] = "put_74"
            /\ (StepFrom(t, "put_85") /\ frame[t].id = id) =>
                   ret'[t].tag = "Ok" /\ Live(id) /\ Live(id)'
            /\ (StepFrom(t, "del_94") /\ frame[t].id = id) =>
                   IF Live(id) THEN pc'[t] = "del_97"
                               ELSE ret'[t] = OrderNotFound(id) /\ ~Live(id)'
            /\ (StepFrom(t, "del_99") /\ frame[t].id = id) =>
                   ret'[t].tag = "Ok" /\ ~Live(id) /\ ~Live(id)'
            /\ pc[t] \in {"put_74", "put_83", "put_85", "del_97", "del_99"} =>
                   /\ orders_lock.writer = t
                   /\ pc'[t] # pc[t] => pc'[t] \in {"put_83", "put_85", "del_99", "idle"}
        /\ (~Live(id) /\ Live(id)') =>
               \E t \in Threads : StepFrom(t, "put_74") /\ frame[t].id = id
        /\ (Live(id) /\ ~Live(id)') =>
               \E t \in Threads : StepFrom(t, "del_94") /\ frame[t].id = id]_vars

\* an id was put, deleted, and put again: its delete has returned Ok and it
\* is live after the third call, a put of it that returned Ok
C14_Witness ==
    \E t, u \in Threads :
        /\ t # u
        /\ calls = 3
        /\ Returned(u, "delete_order", "Ok")
        /\ Returned(t, "put_order", "Ok")
        /\ ret[t].val.order_id = ret[u].val.order_id
        /\ Live(ret[t].val.order_id)

\* ------------------------------------------------------------------------
\* C15  No partial mutation on error paths.  Whenever put_order or
\* delete_order returns an error (DuplicateOrder, OrderNotFound, or
\* MutexPoisoned from the acquisition of either lock), the call has changed
\* neither orders nor tables_idx: the returning step changes neither, and
\* it is taken from a statement the call reaches before any of its
\* mutations (the first acquisition, the existence check, or the remove
\* that found nothing), never from the acquisition of tables_idx, which
\* follows the mutation of orders.
\* ------------------------------------------------------------------------
ErrorTags == {"DuplicateOrder", "OrderNotFound", "MutexPoisoned"}

C15_NoPartialMutationOnError ==
    [][\A t \in Threads :
          ( /\ pc[t] # "idle"
            /\ pc'[t] = "idle"
            /\ ret'[t].op \in {"put_order", "delete_order"}
            /\ ret'[t].tag \in ErrorTags )
          => /\ MapsUnchanged
             /\ pc[t] \in {"put_67", "put_70", "del_91", "del_94"}
             /\ pc[t] = "del_94" => frame[t].id \notin DOMAIN orders]_vars

\* a put_order has stored an order, a panic under the write guard on
\* orders has poisoned that lock, and a delete_order after it has returned
\* MutexPoisoned and left the order stored
C15_Witness ==
    /\ orders_lock.poisoned
    /\ orders # EmptyMap
    /\ \E t, u \in Threads :
           /\ Returned(t, "put_order", "Panicked")
           /\ Returned(u, "delete_order", "MutexPoisoned")

\* ------------------------------------------------------------------------
\* C16  Poisoned-lock reporting.  A poisoned lock stays poisoned, and an
\* operation that comes to its first acquisition while orders or
\* tables_idx is poisoned, as does every operation invoked while one of
\* them is, returns MutexPoisoned there: no normal result, no
\* DuplicateOrder, no OrderNotFound, and no change to the maps.
\* ------------------------------------------------------------------------
EitherPoisoned == orders_lock.poisoned \/ tables_idx_lock.poisoned

C16_PoisonedLockReporting ==
    [][/\ orders_lock.poisoned => orders_lock'.poisoned
       /\ tables_idx_lock.poisoned => tables_idx_lock'.poisoned
       /\ \A t \in Threads :
              ( /\ EitherPoisoned
                /\ \/ StepFrom(t, "put_67")
                   \/ StepFrom(t, "del_91")
                   \/ StepFrom(t, "get_111") )
              => /\ ret'[t].tag = "MutexPoisoned"
                 /\ ret'[t].op = frame[t].op
                 /\ pc'[t] = "idle"
                 /\ MapsUnchanged]_vars

\* a put_order panicked holding the write guard on orders, and a
\* get_orders and a put_order invoked after that have both returned
\* MutexPoisoned
C16_Witness ==
    /\ orders_lock.poisoned
    /\ calls = 3
    /\ \E t, u \in Threads :
           /\ Returned(t, "get_orders", "MutexPoisoned")
           /\ Returned(u, "put_order", "MutexPoisoned")

\* ------------------------------------------------------------------------
\* C17  Deadlock freedom and completion.  In no reachable state are all
\* the pending operations blocked on the two locks: whenever a thread is
\* inside a handler, some thread inside a handler can run its next
\* statement.  And under a fair scheduler every operation that was started
\* returns, and holds neither lock once it has.
\* ------------------------------------------------------------------------
Pending(t) == pc[t] # "idle"

HoldsNoLock(t) ==
    /\ orders_lock.writer # t /\ t \notin orders_lock.readers
    /\ tables_idx_lock.writer # t /\ t \notin tables_idx_lock.readers

C17_DeadlockFreedomAndCompletion ==
    /\ []((\E t \in Threads : Pending(t)) =>
              \E t \in Threads : Pending(t) /\ ENABLED LockStep(t))
    /\ \A t \in Threads : Pending(t) ~> (~Pending(t) /\ HoldsNoLock(t))

\* a put_order waits for orders while a delete_order holds both locks for
\* writing
C17_Witness ==
    \E t, u \in Threads :
        /\ pc[t] = "put_67"
        /\ pc[u] = "del_99"
        /\ orders_lock.writer = u
        /\ tables_idx_lock.writer = u
        /\ ~ENABLED LockStep(t)

\* ------------------------------------------------------------------------
\* C18  No spurious failures between callers using disjoint ids.  When
\* each client puts ids no other client uses, lists, and deletes the ids
\* it put, iteration after iteration, every put_order returns Ok with the
\* client's order, every get_orders returns Ok and every delete_order
\* returns Ok with the client's order, so that every assertion of the
\* client holds, in every interleaving and also when clients share a
\* table.
\* ------------------------------------------------------------------------
C18_NoSpuriousFailures ==
    \A t \in Threads :
        /\ ret[t].tag \in {"NoRet", "Ok"}
        /\ pc[t] = "idle" => Asserted(t)
        /\ ret[t].op = "put_order" =>
               /\ ret[t].val.order_id = task[t].order_ids[Len(task[t].order_ids)]
               /\ ret[t].val.item_id = WorkerItemId(t)
               /\ ret[t].val.table_id = WorkerTableId(t)
        /\ ret[t].op = "delete_order" =>
               /\ ret[t].val.order_id = task[t].order_ids[task[t].deleted]
               /\ ret[t].val.item_id = WorkerItemId(t)
        /\ ret[t].op = "get_orders" =>
               \A i \in 1..Len(ret[t].val) :
                   \E w \in Threads : ret[t].val[i].item_id = WorkerItemId(w)

\* two clients share a table: one, in its second iteration, has deleted
\* its order with Ok, the other has listed the table and got its own order
C18_Witness ==
    \E t, u \in Threads :
        /\ t # u
        /\ task[t].iteration_num = 1
        /\ Returned(t, "delete_order", "Ok")
        /\ Returned(u, "get_orders", "Ok")
        /\ ret[u].table_id = ret[t].val.table_id
        /\ Len(ret[u].val) = 1
        /\ ret[u].val[1].order_id = task[u].order_ids[1]

\* ------------------------------------------------------------------------
\* C19  Quiescent state after matched puts and deletes.  Once every
\* client is idle, with nothing sent in its iteration or with the DELETE
\* of every id it put answered, orders is empty, get_orders(None, None)
\* evaluates to the empty vector, index completeness and soundness hold,
\* and no entry of tables_idx lists any id.
\* ------------------------------------------------------------------------
Quiescent ==
    \A t \in Threads :
        /\ pc[t] = "idle"
        /\ \/ task[t].sent = "none"
           \/ /\ task[t].sent = "delete"
              /\ task[t].deleted = Len(task[t].order_ids)
              /\ ret[t].tag = "Ok"

C19_QuiescentState ==
    Quiescent =>
        /\ orders = EmptyMap
        /\ GetOrdersResults(orders, tables_idx, None, None) = {<<>>}
        /\ IndexComplete
        /\ IndexSound
        /\ \A table \in DOMAIN tables_idx : tables_idx[table] = <<>>

\* every client has run all its iterations, and the table they put their
\* orders on still has its entry in tables_idx
C19_Witness ==
    /\ Quiescent
    /\ \A t \in Threads : task[t].iteration_num = MaxRounds
    /\ \E t \in Threads : WorkerTableId(t) \in DOMAIN tables_idx

\* ------------------------------------------------------------------------
\* C20  Writers are exclusive across both mappings.  From its existence
\* check on orders until its update of tables_idx is done, a put_order or
\* delete_order holds orders for writing, and no other put_order,
\* delete_order or get_orders is past its first acquisition, so none can
\* read or write either mapping, in particular not between the writer's
\* mutation of orders and its mutation of tables_idx.  tables_idx is only
\* ever held by threads that hold orders in the same mode: the two locks
\* act as one.
\* ------------------------------------------------------------------------
InWriter(t) ==
    pc[t] \in {"put_70", "put_74", "put_83", "put_85", "del_94", "del_97", "del_99"}

\* thread u may read or write a mapping: it is past its first acquisition
HasAccess(u) == pc[u] \notin {"idle", "put_67", "del_91", "get_111"}

C20_WritersExclusive ==
    /\ \A t \in Threads :
           InWriter(t) =>
               /\ orders_lock.writer = t
               /\ orders_lock.readers = {}
               /\ tables_idx_lock.writer \in {NoThread, t}
               /\ tables_idx_lock.readers = {}
               /\ \A u \in Threads \ {t} : ~HasAccess(u)
    /\ tables_idx_lock.writer # NoThread => tables_idx_lock.writer = orders_lock.writer
    /\ tables_idx_lock.readers \subseteq orders_lock.readers

\* a put_order has inserted into orders and not yet pushed onto
\* tables_idx, and a get_orders is waiting at its first acquisition
C20_Witness ==
    \E t, u \in Threads :
        /\ pc[t] = "put_83"
        /\ frame[t].id \in DOMAIN orders
        /\ ~IndexComplete
        /\ pc[u] = "get_111"
        /\ ~CanRead(orders_lock)

\* ------------------------------------------------------------------------
\* C21  Frame of a mutation.  The steps by which a put_order or a
\* delete_order of an id changes the maps (insert at line 81, push at line
\* 85, remove at line 94, retain at line 100) leave the record stored
\* under every other id as it was, leave the entry of every table other
\* than the order's table as it was, and keep the other ids of the
\* order's table in its entry, each exactly once; no other step of a
\* handler, and so no step of get_orders, changes either map.
\* ------------------------------------------------------------------------
OtherOrdersUnchanged(id) ==
    \A o \in (DOMAIN orders \cup DOMAIN orders') \ {id} :
        o \in DOMAIN orders /\ o \in DOMAIN orders' /\ orders'[o] = orders[o]

OtherTablesUnchanged(table_id) ==
    \A table \in (DOMAIN tables_idx \cup DOMAIN tables_idx') \ {table_id} :
        /\ table \in DOMAIN tables_idx
        /\ table \in DOMAIN tables_idx'
        /\ tables_idx'[table] = tables_idx[table]

EntryOf(idx, table_id) == IF table_id \in DOMAIN idx THEN idx[table_id] ELSE <<>>

OtherIdsKept(table_id, id) ==
    LET old == EntryOf(tables_idx, table_id)
        new == EntryOf(tables_idx', table_id)
    IN  /\ Elements(new) \ {id} = Elements(old) \ {id}
        /\ \A x \in Elements(old) \ {id} : Count(new, x) = 1

C21_FrameOfMutation ==
    [][\A t \in Threads :
        /\ (StepFrom(t, "put_74") \/ StepFrom(t, "put_85")) =>
               /\ OtherOrdersUnchanged(frame[t].id)
               /\ OtherTablesUnchanged(frame[t].table_id)
               /\ OtherIdsKept(frame[t].table_id, frame[t].id)
        /\ StepFrom(t, "del_94") =>
               /\ OtherOrdersUnchanged(frame[t].id)
               /\ tables_idx' = tables_idx
        /\ StepFrom(t, "del_99") =>
               /\ orders' = orders
               /\ OtherTablesUnchanged(frame[t].local.table_id)
               /\ OtherIdsKept(frame[t].local.table_id, frame[t].id)
        /\ (pc'[t] # pc[t] /\ pc[t] \notin {"put_74", "put_85", "del_94", "del_99"}) =>
               MapsUnchanged
        /\ (StepFrom(t, "get_111") \/ StepFrom(t, "get_113") \/ StepFrom(t, "get_116")) =>
               MapsUnchanged]_vars

\* two orders were put on one table and one of them was deleted: the other
\* is still stored and is all that the table's entry lists
C21_Witness ==
    \E t \in Threads, other \in OrderIds :
        /\ calls = 3
        /\ Returned(t, "delete_order", "Ok")
        /\ other # ret[t].val.order_id
        /\ other \in DOMAIN orders
        /\ orders[other].table_id = ret[t].val.table_id
        /\ tables_idx = [x \in {ret[t].val.table_id} |-> <<other>>]

====
